---- MODULE Spec2Model ----
(***************************************************************************)
(* Style-profile service of the fashion-stylist backend:                   *)
(* services/style_profile_service.py (StyleProfileService), the            *)
(* /style-profiles router (routers/style_profiles.py) and the per-request  *)
(* database session (app/database.py).                                     *)
(*                                                                         *)
(* Representation of Python values:                                        *)
(*   str | None        a string; None is the string None                   *)
(*   float | None      the repr of the float ("170.0"); None as above      *)
(*   List[str] | None  a sequence of strings; None is NoneList             *)
(*   Dict[str,str]     a sequence of <<key, value>> pairs with distinct    *)
(*                     keys, in insertion order; None is NoneDict          *)
(*   embedding         a sequence of integers; NULL is NoneVec             *)
(*   a text            the sequence of its pieces, whose concatenation is  *)
(*                     the Python string                                   *)
(***************************************************************************)
EXTENDS Integers, Sequences, FiniteSets, TLC

VARIABLES
    rows,       \* table style_profiles as committed: rows[i] is the row with id i
    session,    \* unit of work of the request's Session: objects changed or added, not committed
    calls,      \* embedding-service and Session calls made by the last operation, in order
    outcome,    \* what the last operation was given, loaded, and returned or raised
    pre,        \* history: rows when the last operation started
    embSrc,     \* history: embSrc[i] is the text the stored style_embedding of row i was generated from
    commits,    \* history: number of commits made
    tx          \* the requests that run step by step next to each other, each with its own session

vars == <<rows, session, calls, outcome, pre, embSrc, commits, tx>>

(***************************************************************************)
(* Bounds                                                                  *)
(***************************************************************************)
MaxCommits == 2     \* commits in one behaviour: requests are served while fewer were made
MaxSeedRows == 2    \* rows of a table the behaviour starts from
MaxIds == 2         \* length of a merge request's profile_ids

(***************************************************************************)
(* Python values                                                           *)
(***************************************************************************)
None == "<None>"
NoneList == <<None>>
NoneDict == <<<<None, None>>>>
NoneVec == <<>>

Range(s) == {s[i] : i \in 1..Len(s)}

\* bool(x) of an Optional[str] and of an Optional[float]
TruthyStr(v) == v # None /\ v # ""
TruthyNum(v) == v # None /\ v # "0.0"
\* bool(x) of an Optional[list]
TruthyList(v) == v # NoneList /\ v # <<>>
\* bool(x) of an Optional[dict]
TruthyDict(v) == v # NoneDict /\ v # <<>>

\* d.get(k, default) of a mapping given as a TLA+ function
Get(d, k, default) == IF k \in DOMAIN d THEN d[k] ELSE default

\* keys of a dict, d[k] and dict.update(e)
DictKeys(d) == {d[i][1] : i \in 1..Len(d)}
DictGet(d, k) == d[CHOOSE i \in 1..Len(d) : d[i][1] = k][2]
\* a plausible slip: update() that keeps the value already present (setdefault)
DictSetKeepFirst(d, k, v) ==
    IF k \in DictKeys(d) THEN d ELSE Append(d, <<k, v>>)

\* d[k] = v, as dict.update does it for one key of its argument
DictSet(d, k, v) ==
    IF k \in DictKeys(d)
    THEN [i \in 1..Len(d) |-> IF d[i][1] = k THEN <<k, v>> ELSE d[i]]
    ELSE Append(d, <<k, v>>)

RECURSIVE DictUpdate(_, _)
DictUpdate(d, e) ==
    IF e = <<>> THEN d
    ELSE DictUpdate(DictSet(d, e[1][1], e[1][2]), Tail(e))

\* a plausible slip: an element that occurs more than once is dropped altogether
ListSetDropRepeated(xs) ==
    LET once == {x \in Range(xs) : Cardinality({i \in 1..Len(xs) : xs[i] = x}) = 1}
    IN  {s \in [1..Cardinality(once) -> once] : Range(s) = once}

\* a plausible slip: the deduplication left out
ListSetKeepAll(xs) == {xs}

\* list(set(xs)): the distinct elements of xs, in whatever order the set iterates
ListSet(xs) ==
    {s \in [1..Cardinality(Range(xs)) -> Range(xs)] : Range(s) = Range(xs)}

(***************************************************************************)
(* Rendering                                                               *)
(***************************************************************************)
RECURSIVE Join(_, _)
\* sep.join(parts), every part a sequence of pieces
Join(parts, sep) ==
    IF parts = <<>> THEN <<>>
    ELSE IF Len(parts) = 1 THEN parts[1]
    ELSE parts[1] \o <<sep>> \o Join(Tail(parts), sep)

_profile_to_text(profile) ==
    <<"Body shape: ", IF TruthyStr(profile.body_shape) THEN profile.body_shape ELSE "unknown", ". ">>
    \o <<"Skin tone: ", IF TruthyStr(profile.skin_tone) THEN profile.skin_tone ELSE "unknown", ". ">>
    \o (IF TruthyNum(profile.height)
        THEN <<"Height: ", profile.height, "cm. ">> ELSE <<>>)
    \o (IF TruthyDict(profile.sizes)
        THEN <<"Sizes: ">>
             \o Join([i \in 1..Len(profile.sizes) |->
                        <<profile.sizes[i][1], ": ", profile.sizes[i][2]>>], ", ")
             \o <<". ">>
        ELSE <<>>)
    \o (IF TruthyList(profile.style_preferences)
        THEN <<"Style preferences: ">>
             \o Join([i \in 1..Len(profile.style_preferences) |->
                        <<profile.style_preferences[i]>>], ", ")
             \o <<". ">>
        ELSE <<>>)
    \o (IF TruthyList(profile.favorite_colors)
        THEN <<"Favorite colors: ">>
             \o Join([i \in 1..Len(profile.favorite_colors) |->
                        <<profile.favorite_colors[i]>>], ", ")
             \o <<". ">>
        ELSE <<>>)
    \o (IF TruthyList(profile.disliked_items)
        THEN <<"Disliked items: ">>
             \o Join([i \in 1..Len(profile.disliked_items) |->
                        <<profile.disliked_items[i]>>], ", ")
             \o <<".">>
        ELSE <<>>)

\* a plausible slip: the fallback for a missing body shape or skin tone left out
_profile_dict_to_text_no_fallback(profile) ==
    <<"Body shape: ", Get(profile, "body_shape", None), ". ">>
    \o <<"Skin tone: ", Get(profile, "skin_tone", None), ". ">>
    \o (IF TruthyNum(Get(profile, "height", None))
        THEN <<"Height: ", profile["height"], "cm. ">> ELSE <<>>)
    \o (IF TruthyDict(Get(profile, "sizes", NoneDict))
        THEN <<"Sizes: ">>
             \o Join([i \in 1..Len(profile["sizes"]) |->
                        <<profile["sizes"][i][1], ": ", profile["sizes"][i][2]>>], ", ")
             \o <<". ">>
        ELSE <<>>)
    \o (IF TruthyList(Get(profile, "style_preferences", NoneList))
        THEN <<"Style preferences: ">>
             \o Join([i \in 1..Len(profile["style_preferences"]) |->
                        <<profile["style_preferences"][i]>>], ", ")
             \o <<". ">>
        ELSE <<>>)
    \o (IF TruthyList(Get(profile, "favorite_colors", NoneList))
        THEN <<"Favorite colors: ">>
             \o Join([i \in 1..Len(profile["favorite_colors"]) |->
                        <<profile["favorite_colors"][i]>>], ", ")
             \o <<". ">>
        ELSE <<>>)
    \o (IF TruthyList(Get(profile, "disliked_items", NoneList))
        THEN <<"Disliked items: ">>
             \o Join([i \in 1..Len(profile["disliked_items"]) |->
                        <<profile["disliked_items"][i]>>], ", ")
             \o <<".">>
        ELSE <<>>)

\* lines 347-376: the text of a mapping; profile.get(key) of a missing key is None
_profile_dict_to_text(profile) ==
    <<"Body shape: ",
      IF TruthyStr(Get(profile, "body_shape", None)) THEN profile["body_shape"]
      ELSE "unknown", ". ">>
    \o <<"Skin tone: ",
         IF TruthyStr(Get(profile, "skin_tone", None)) THEN profile["skin_tone"]
         ELSE "unknown", ". ">>
    \o (IF TruthyNum(Get(profile, "height", None))
        THEN <<"Height: ", profile["height"], "cm. ">> ELSE <<>>)
    \o (IF TruthyDict(Get(profile, "sizes", NoneDict))
        THEN <<"Sizes: ">>
             \o Join([i \in 1..Len(profile["sizes"]) |->
                        <<profile["sizes"][i][1], ": ", profile["sizes"][i][2]>>], ", ")
             \o <<". ">>
        ELSE <<>>)
    \o (IF TruthyList(Get(profile, "style_preferences", NoneList))
        THEN <<"Style preferences: ">>
             \o Join([i \in 1..Len(profile["style_preferences"]) |->
                        <<profile["style_preferences"][i]>>], ", ")
             \o <<". ">>
        ELSE <<>>)
    \o (IF TruthyList(Get(profile, "favorite_colors", NoneList))
        THEN <<"Favorite colors: ">>
             \o Join([i \in 1..Len(profile["favorite_colors"]) |->
                        <<profile["favorite_colors"][i]>>], ", ")
             \o <<". ">>
        ELSE <<>>)
    \o (IF TruthyList(Get(profile, "disliked_items", NoneList))
        THEN <<"Disliked items: ">>
             \o Join([i \in 1..Len(profile["disliked_items"]) |->
                        <<profile["disliked_items"][i]>>], ", ")
             \o <<".">>
        ELSE <<>>)

(***************************************************************************)
(* Embedding service and storage, as the service sees them                 *)
(***************************************************************************)
\* vectors the embedding service may answer with
Vectors == {<<1, 0>>, <<0, 1>>}

\* client.embeddings.create: an answer, or an exception with its message
EmbeddingReplies ==
    [ok : {TRUE}, vec : Vectors, err : {None}]
    \cup [ok : {FALSE}, vec : {NoneVec}, err : {"Request timed out."}]

\* a plausible slip: a failed request answered with a zero vector
generate_style_embedding_zero_vector(reply) ==
    [raised |-> FALSE, vec |-> IF reply.ok THEN reply.vec ELSE <<0, 0>>,
     status |-> 200, detail |-> <<>>]

\* generate_style_embedding: the vector, or HTTPException(500)
generate_style_embedding(reply) ==
    IF reply.ok
    THEN [raised |-> FALSE, vec |-> reply.vec, status |-> 200, detail |-> <<>>]
    ELSE [raised |-> TRUE, vec |-> NoneVec, status |-> 500,
          detail |-> <<"Error generating style embedding: ", reply.err>>]

\* db.commit() in the service: done, or an exception of the storage layer
CommitReplies == {None, "Database error"}

\* db.commit() in the router, which catches IntegrityError and no other exception
RouterCommitReplies == {None, "IntegrityError", "Database error"}

\* the session get_db hands to a request: nothing loaded, changed or added
CleanSession == [dirty |-> {}, new |-> <<>>]

\* the rows after a flush of the unit of work s
Flush(rs, s) ==
    [i \in 1..Len(rs) |->
        IF \E d \in s.dirty : d.id = i
        THEN (CHOOSE d \in s.dirty : d.id = i).obj
        ELSE rs[i]] \o s.new

(***************************************************************************)
(* Profiles and requests                                                   *)
(***************************************************************************)
\* StyleProfile(...): the columns a constructor call leaves out are NULL
StyleProfile(user_id, name, description, body_shape, skin_tone, height, sizes, style_preferences, favorite_colors, disliked_items) ==
    [user_id |-> user_id, name |-> name, description |-> description,
     body_shape |-> body_shape, skin_tone |-> skin_tone, height |-> height,
     sizes |-> sizes, style_preferences |-> style_preferences,
     favorite_colors |-> favorite_colors, disliked_items |-> disliked_items,
     favorite_brands |-> NoneList, style_embedding |-> NoneVec]

\* the attributes that the rendered text, and so the embedding, depends on
EmbeddedFields ==
    {"body_shape", "skin_tone", "height", "sizes", "style_preferences",
     "favorite_colors", "disliked_items"}

NoProfile == [none |-> TRUE]
NoReply == [ok |-> FALSE, vec |-> NoneVec, err |-> None]
NoAnalysis == <<>>

Users == {1, 2}

\* analysis results handed to the service: all groups, no group, some groups
Analyses ==
    { ("person_attributes" :> ("body_shape" :> "hourglass" @@ "skin_tone" :> "warm"))
        @@ ("style_assessment" :> ("style_descriptors" :> <<"casual", "modern">>
                                   @@ "color_palette" :> <<"blue">>))
        @@ ("size_estimation" :> <<<<"top", "M">>>>),
      <<>>,
      ("person_attributes" :> ("body_shape" :> "pear"))
        @@ ("style_assessment" :> ("style_descriptors" :> <<"casual", "elegant">>))
        @@ ("size_estimation" :> <<<<"top", "S">>, <<"bottom", "30">>>>) }

\* bodies of POST /style-profiles/ (StyleProfileCreate.model_dump())
CreatePayloads ==
    { [name |-> "Mine", description |-> None, body_shape |-> None, skin_tone |-> None,
       height |-> None, sizes |-> NoneDict, style_preferences |-> NoneList,
       favorite_colors |-> NoneList, disliked_items |-> NoneList,
       favorite_brands |-> NoneList],
      [name |-> "Work", description |-> "office", body_shape |-> "pear",
       skin_tone |-> "cool", height |-> "170.0", sizes |-> <<<<"top", "M">>>>,
       style_preferences |-> <<"casual">>, favorite_colors |-> <<"black", "blue">>,
       disliked_items |-> <<"crop tops">>, favorite_brands |-> <<"Zara">>] }

\* bodies of PUT /style-profiles/{id} (model_dump(exclude_unset=True))
UpdatePayloads ==
    { [name |-> "Renamed"],
      [body_shape |-> "rectangle"],
      [sizes |-> <<<<"shoes", "9">>>>, favorite_colors |-> NoneList] }

Result(op, user_id, ids, analysis, loaded, raised, status, detail, profile, reply) ==
    [op |-> op, user_id |-> user_id, ids |-> ids, analysis |-> analysis,
     loaded |-> loaded, raised |-> raised, status |-> status, detail |-> detail,
     profile |-> profile, reply |-> reply]

\* the requests that may run next to each other, and one that has not started
Procs == {1, 2}
IdleTx ==
    [pc |-> "idle", id |-> 0, analysis |-> NoAnalysis, loaded |-> NoProfile,
     entity |-> NoProfile, text |-> <<>>, at |-> 0, raised |-> "none"]

(***************************************************************************)
(* Initial state: an empty table, a fresh session                          *)
(***************************************************************************)
Init ==
    /\ rows = <<>>
    /\ session = CleanSession
    /\ calls = <<>>
    /\ outcome = Result("none", 0, <<>>, NoAnalysis, <<>>, "none", 0, <<>>, NoProfile, NoReply)
    /\ pre = <<>>
    /\ embSrc = <<>>
    /\ commits = 0
    /\ tx = [p \in Procs |-> IdleTx]

(***************************************************************************)
(* get_db: the request's session is closed when the request ends; what it  *)
(* held uncommitted is discarded                                           *)
(***************************************************************************)
get_db_close ==
    /\ session # CleanSession
    /\ session' = CleanSession
    /\ UNCHANGED <<rows, calls, outcome, pre, embSrc, commits, tx>>

(***************************************************************************)
(* POST /style-profiles/                                                   *)
(***************************************************************************)
create_style_profile(current_user, profile_data, commit) ==
    LET db_profile == [f \in DOMAIN profile_data \cup {"user_id", "style_embedding"} |->
                         IF f = "user_id" THEN current_user
                         ELSE IF f = "style_embedding" THEN NoneVec
                         ELSE profile_data[f]]
        pending == [session EXCEPT !.new = Append(@, db_profile)]
    IN  /\ session = CleanSession
        /\ commits < MaxCommits
        /\ UNCHANGED tx
        /\ pre' = rows
        /\ IF commit = None
           THEN /\ commits' = commits + 1
                /\ rows' = Flush(rows, pending)
                /\ embSrc' = Append(embSrc, <<>>)
                /\ session' = CleanSession
                /\ calls' = <<"add", "commit", "refresh">>
                /\ outcome' = Result("create_style_profile", current_user, <<>>, NoAnalysis,
                                     <<>>, "none", 201, <<>>, db_profile, NoReply)
           ELSE IF commit = "IntegrityError"
           THEN /\ session' = CleanSession
                /\ calls' = <<"add", "commit", "rollback">>
                /\ outcome' = Result("create_style_profile", current_user, <<>>, NoAnalysis,
                                     <<>>, "HTTPException", 400,
                                     <<"Could not create style profile. Please try again.">>,
                                     db_profile, NoReply)
                /\ UNCHANGED <<rows, embSrc, commits>>
           ELSE /\ session' = pending
                /\ calls' = <<"add", "commit">>
                /\ outcome' = Result("create_style_profile", current_user, <<>>, NoAnalysis,
                                     <<>>, "Exception", 0, <<commit>>, db_profile, NoReply)
                /\ UNCHANGED <<rows, embSrc, commits>>

(***************************************************************************)
(* StyleProfileService.create_profile_from_analysis                        *)
(***************************************************************************)
\* a plausible slip: the two lists of the style assessment taken for each other
ProfileFromAnalysisSwapped(user_id, analysis_results, profile_name) ==
    LET person_attributes == Get(analysis_results, "person_attributes", <<>>)
        style_assessment == Get(analysis_results, "style_assessment", <<>>)
        size_estimation == Get(analysis_results, "size_estimation", <<>>)
    IN  StyleProfile(user_id, profile_name, None,
                     Get(person_attributes, "body_shape", None),
                     Get(person_attributes, "skin_tone", None),
                     None,
                     size_estimation,
                     Get(style_assessment, "color_palette", <<>>),
                     Get(style_assessment, "style_descriptors", <<>>),
                     <<>>)

\* lines 48-77: the entity built from the analysis results
ProfileFromAnalysis(user_id, analysis_results, profile_name) ==
    LET person_attributes == Get(analysis_results, "person_attributes", <<>>)
        style_assessment == Get(analysis_results, "style_assessment", <<>>)
        size_estimation == Get(analysis_results, "size_estimation", <<>>)
    IN  StyleProfile(user_id, profile_name, None,
                     Get(person_attributes, "body_shape", None),
                     Get(person_attributes, "skin_tone", None),
                     None,
                     size_estimation,
                     Get(style_assessment, "style_descriptors", <<>>),
                     Get(style_assessment, "color_palette", <<>>),
                     <<>>)

\* a plausible slip: the entity is added to the session before it is embedded
CreateCallsAddFirst(embedded) ==
    IF embedded THEN <<"add", "embed", "commit">> ELSE <<"add", "embed">>

\* lines 79-85: the calls create_profile_from_analysis makes up to the commit
CreateCalls(embedded) ==
    IF embedded THEN <<"embed", "add", "commit">> ELSE <<"embed">>

create_profile_from_analysis(user_id, analysis_results, profile_name, reply, commit) ==
    LET db_profile == ProfileFromAnalysis(user_id, analysis_results, profile_name)
        text == _profile_to_text(db_profile)
        emb == generate_style_embedding(reply)
        embedded == [db_profile EXCEPT !.style_embedding = emb.vec]
        made == CreateCalls(~emb.raised)
        pending == IF "add" \in Range(made)
                   THEN [session EXCEPT !.new = Append(@, IF emb.raised THEN db_profile ELSE embedded)]
                   ELSE session
    IN  /\ session = CleanSession
        /\ commits < MaxCommits
        /\ UNCHANGED tx
        /\ pre' = rows
        /\ IF emb.raised
           THEN /\ calls' = made
                /\ session' = pending
                /\ UNCHANGED <<rows, embSrc, commits>>
                /\ outcome' = Result("create_profile_from_analysis", user_id, <<>>,
                                     analysis_results, <<>>, "HTTPException", emb.status,
                                     emb.detail, db_profile, reply)
           ELSE IF commit # None
           THEN \* db.commit() raises: nothing catches it, the session keeps the added entity
                /\ calls' = made
                /\ session' = pending
                /\ UNCHANGED <<rows, embSrc, commits>>
                /\ outcome' = Result("create_profile_from_analysis", user_id, <<>>,
                                     analysis_results, <<>>, "Exception", 0,
                                     <<commit>>, embedded, reply)
           ELSE /\ calls' = made \o <<"refresh">>
                /\ commits' = commits + 1
                /\ rows' = Flush(rows, pending)
                /\ embSrc' = Append(embSrc, text)
                /\ session' = CleanSession
                /\ outcome' = Result("create_profile_from_analysis", user_id, <<>>,
                                     analysis_results, <<>>, "none", 200, <<>>,
                                     embedded, reply)

(***************************************************************************)
(* PUT /style-profiles/{profile_id}                                        *)
(***************************************************************************)
\* lines 124-127: setattr(profile, field, value) for every field the body sets
ApplyUpdate(profile, update_data) ==
    [f \in DOMAIN profile |->
        IF f \in DOMAIN update_data THEN update_data[f] ELSE profile[f]]

update_style_profile(profile_id, current_user, update_data, commit) ==
    LET found == profile_id \in 1..Len(rows) /\ rows[profile_id].user_id = current_user
        profile == ApplyUpdate(rows[profile_id], update_data)
        pending == [session EXCEPT !.dirty = {[id |-> profile_id, obj |-> profile]}]
    IN  /\ session = CleanSession
        /\ commits < MaxCommits
        /\ UNCHANGED tx
        /\ pre' = rows
        /\ IF ~found
           THEN /\ calls' = <<>>
                /\ outcome' = Result("update_style_profile", current_user, <<profile_id>>,
                                     NoAnalysis, <<>>, "HTTPException", 404,
                                     <<"Style profile not found">>, NoProfile, NoReply)
                /\ UNCHANGED <<rows, session, embSrc, commits>>
           ELSE IF commit = None
           THEN /\ calls' = <<"commit", "refresh">>
                /\ commits' = commits + 1
                /\ rows' = Flush(rows, pending)
                /\ session' = CleanSession
                /\ outcome' = Result("update_style_profile", current_user, <<profile_id>>,
                                     NoAnalysis, <<profile_id>>, "none", 200, <<>>,
                                     profile, NoReply)
                /\ UNCHANGED embSrc
           ELSE IF commit = "IntegrityError"
           THEN /\ calls' = <<"commit", "rollback">>
                /\ session' = CleanSession
                /\ outcome' = Result("update_style_profile", current_user, <<profile_id>>,
                                     NoAnalysis, <<profile_id>>, "HTTPException", 400,
                                     <<"Could not update style profile">>, profile, NoReply)
                /\ UNCHANGED <<rows, embSrc, commits>>
           ELSE /\ calls' = <<"commit">>
                /\ session' = pending
                /\ outcome' = Result("update_style_profile", current_user, <<profile_id>>,
                                     NoAnalysis, <<profile_id>>, "Exception", 0, <<commit>>,
                                     profile, NoReply)
                /\ UNCHANGED <<rows, embSrc, commits>>

(***************************************************************************)
(* StyleProfileService.update_profile_from_analysis                        *)
(***************************************************************************)
\* a plausible slip: the scalar attributes and the sizes assigned whatever the
\* analysis holds
AnalysisUpdatesOverwrite(db_profile, analysis_results) ==
    LET person_attributes == Get(analysis_results, "person_attributes", <<>>)
        size_estimation == Get(analysis_results, "size_estimation", <<>>)
    IN  { [db_profile EXCEPT
             !.body_shape = Get(person_attributes, "body_shape", None),
             !.skin_tone = Get(person_attributes, "skin_tone", None),
             !.sizes = size_estimation] }

\* a plausible slip: the incoming lists replace the stored ones
AnalysisUpdatesReplaceLists(db_profile, analysis_results) ==
    LET person_attributes == Get(analysis_results, "person_attributes", <<>>)
        style_assessment == Get(analysis_results, "style_assessment", <<>>)
        size_estimation == Get(analysis_results, "size_estimation", <<>>)
        body_shape == Get(person_attributes, "body_shape", None)
        skin_tone == Get(person_attributes, "skin_tone", None)
        new_prefs == Get(style_assessment, "style_descriptors", <<>>)
        new_colors == Get(style_assessment, "color_palette", <<>>)
        existing_sizes == IF TruthyDict(db_profile.sizes) THEN db_profile.sizes ELSE <<>>
        prefs == IF TruthyList(new_prefs) THEN ListSet(new_prefs)
                 ELSE {db_profile.style_preferences}
        colors == IF TruthyList(new_colors) THEN ListSet(new_colors)
                  ELSE {db_profile.favorite_colors}
    IN  { [db_profile EXCEPT
             !.body_shape = IF TruthyStr(body_shape) THEN body_shape ELSE @,
             !.skin_tone = IF TruthyStr(skin_tone) THEN skin_tone ELSE @,
             !.sizes = IF TruthyDict(size_estimation)
                       THEN DictUpdate(existing_sizes, size_estimation) ELSE @,
             !.style_preferences = sp,
             !.favorite_colors = fc] : sp \in prefs, fc \in colors }

\* lines 112-140: the possible states of the loaded entity after the field
\* updates (list(set(...)) leaves the order of a merged list open)
AnalysisUpdates(db_profile, analysis_results) ==
    LET person_attributes == Get(analysis_results, "person_attributes", <<>>)
        style_assessment == Get(analysis_results, "style_assessment", <<>>)
        size_estimation == Get(analysis_results, "size_estimation", <<>>)
        body_shape == Get(person_attributes, "body_shape", None)
        skin_tone == Get(person_attributes, "skin_tone", None)
        new_prefs == Get(style_assessment, "style_descriptors", <<>>)
        new_colors == Get(style_assessment, "color_palette", <<>>)
        existing_sizes == IF TruthyDict(db_profile.sizes) THEN db_profile.sizes ELSE <<>>
        existing_prefs == IF TruthyList(db_profile.style_preferences)
                          THEN db_profile.style_preferences ELSE <<>>
        existing_colors == IF TruthyList(db_profile.favorite_colors)
                           THEN db_profile.favorite_colors ELSE <<>>
        prefs == IF TruthyList(new_prefs) THEN ListSet(existing_prefs \o new_prefs)
                 ELSE {db_profile.style_preferences}
        colors == IF TruthyList(new_colors) THEN ListSet(existing_colors \o new_colors)
                  ELSE {db_profile.favorite_colors}
    IN  { [db_profile EXCEPT
             !.body_shape = IF TruthyStr(body_shape) THEN body_shape ELSE @,
             !.skin_tone = IF TruthyStr(skin_tone) THEN skin_tone ELSE @,
             !.sizes = IF TruthyDict(size_estimation)
                       THEN DictUpdate(existing_sizes, size_estimation) ELSE @,
             !.style_preferences = sp,
             !.favorite_colors = fc] : sp \in prefs, fc \in colors }

\* a plausible slip: the unit of work rolled back when the operation raises
PendingAfterRaiseRolledBack(profile_id, before, after) == {}

\* what the session holds when the operation raises after line 140: the loaded
\* entity with its attribute changes, which nothing rolls back
PendingAfterRaise(profile_id, before, after) ==
    IF after = before THEN {} ELSE {[id |-> profile_id, obj |-> after]}

\* a plausible slip: the embedding requested before the profile is looked up
UpdateCallsEmbedFirst(found, embedded, committed) ==
    IF ~found \/ ~embedded THEN <<"embed">>
    ELSE IF ~committed THEN <<"embed", "commit">>
    ELSE <<"embed", "commit", "refresh">>

\* a plausible slip: the embedding requested for the entity as loaded and
\* again after the attribute updates
UpdateCallsEmbedTwice(found, embedded, committed) ==
    IF ~found THEN <<>>
    ELSE IF ~embedded THEN <<"embed">>
    ELSE IF ~committed THEN <<"embed", "embed", "commit">>
    ELSE <<"embed", "embed", "commit", "refresh">>

\* lines 107-148: the embedding and Session calls of the operation, in order
UpdateCalls(found, embedded, committed) ==
    IF ~found THEN <<>>
    ELSE IF ~embedded THEN <<"embed">>
    ELSE IF ~committed THEN <<"embed", "commit">>
    ELSE <<"embed", "commit", "refresh">>

\* a plausible slip: a profile that has an embedding keeps it
SetEmbeddingIfMissing(db_profile, embedding) ==
    IF db_profile.style_embedding # NoneVec THEN db_profile
    ELSE [db_profile EXCEPT !.style_embedding = embedding]

\* line 144: db_profile.style_embedding = embedding
SetEmbedding(db_profile, embedding) == [db_profile EXCEPT !.style_embedding = embedding]

update_profile_from_analysis(profile_id, analysis_results, reply, commit) ==
    LET found == profile_id \in 1..Len(rows)
    IN  /\ session = CleanSession
        /\ commits < MaxCommits
        /\ UNCHANGED tx
        /\ pre' = rows
        /\ IF ~found
           THEN /\ calls' = UpdateCalls(FALSE, FALSE, FALSE)
                /\ outcome' = Result("update_profile_from_analysis", 0, <<profile_id>>,
                                     analysis_results, <<>>, "HTTPException", 404,
                                     <<"Style profile not found">>, NoProfile, NoReply)
                /\ UNCHANGED <<rows, session, embSrc, commits>>
           ELSE \E db_profile \in AnalysisUpdates(rows[profile_id], analysis_results) :
                LET text == _profile_to_text(db_profile)
                    emb == generate_style_embedding(reply)
                    embedded == SetEmbedding(db_profile, emb.vec)
                IN  IF emb.raised
                    THEN /\ calls' = UpdateCalls(TRUE, FALSE, FALSE)
                         /\ session' = [session EXCEPT !.dirty =
                                PendingAfterRaise(profile_id, rows[profile_id], db_profile)]
                         /\ outcome' = Result("update_profile_from_analysis", 0,
                                              <<profile_id>>, analysis_results,
                                              <<profile_id>>, "HTTPException", emb.status,
                                              emb.detail, db_profile, reply)
                         /\ UNCHANGED <<rows, embSrc, commits>>
                    ELSE IF commit # None
                    THEN /\ calls' = UpdateCalls(TRUE, TRUE, FALSE)
                         /\ session' = [session EXCEPT !.dirty =
                                PendingAfterRaise(profile_id, rows[profile_id], embedded)]
                         /\ outcome' = Result("update_profile_from_analysis", 0,
                                              <<profile_id>>, analysis_results,
                                              <<profile_id>>, "Exception", 0,
                                              <<commit>>, embedded, reply)
                         /\ UNCHANGED <<rows, embSrc, commits>>
                    ELSE /\ calls' = UpdateCalls(TRUE, TRUE, TRUE)
                         /\ commits' = commits + 1
                         /\ rows' = Flush(rows, [session EXCEPT !.dirty =
                                            {[id |-> profile_id, obj |-> embedded]}])
                         /\ embSrc' = [embSrc EXCEPT ![profile_id] = text]
                         /\ session' = CleanSession
                         /\ outcome' = Result("update_profile_from_analysis", 0,
                                              <<profile_id>>, analysis_results,
                                              <<profile_id>>, "none", 200, <<>>,
                                              embedded, reply)

(***************************************************************************)
(* StyleProfileService.merge_profiles                                      *)
(***************************************************************************)
RECURSIVE Orders(_)
\* the sequences that list every element of the set S once
Orders(S) ==
    IF S = {} THEN {<<>>}
    ELSE UNION {{<<x>> \o o : o \in Orders(S \ {x})} : x \in S}

\* a plausible slip: the query filters on the ids only
LoadProfilesOfAnyUser(profile_ids, user_id) ==
    Orders({i \in 1..Len(rows) : i \in Range(profile_ids)})

\* lines 172-175: the ids of the rows the query loads, in each order the
\* database may return them (the query has no ORDER BY)
LoadProfiles(profile_ids, user_id) ==
    Orders({i \in 1..Len(rows) : i \in Range(profile_ids) /\ rows[i].user_id = user_id})

\* a plausible slip: only a request that finds nothing is refused
CountMismatchNothingFound(profiles, profile_ids) ==
    profiles = <<>> /\ profile_ids # <<>>

\* line 177
CountMismatch(profiles, profile_ids) == Len(profiles) # Len(profile_ids)

\* a plausible slip: the first value found is kept
MergeValueFirstWins(current, value, present) ==
    IF present /\ current = None THEN value ELSE current

\* lines 194-201: if profile.f: merged_data[f] = profile.f
MergeValue(current, value, present) == IF present THEN value ELSE current

\* lines 181-189
EmptyMergedData ==
    [body_shape |-> None, skin_tone |-> None, height |-> None, sizes |-> <<>>,
     style_preferences |-> <<>>, favorite_colors |-> <<>>, disliked_items |-> <<>>]

\* lines 192-214: one pass of the loop body
MergeStep(merged_data, profile) ==
    [body_shape |-> MergeValue(merged_data.body_shape, profile.body_shape,
                               TruthyStr(profile.body_shape)),
     skin_tone |-> MergeValue(merged_data.skin_tone, profile.skin_tone,
                              TruthyStr(profile.skin_tone)),
     height |-> MergeValue(merged_data.height, profile.height, TruthyNum(profile.height)),
     sizes |-> IF TruthyDict(profile.sizes)
               THEN DictUpdate(merged_data.sizes, profile.sizes) ELSE merged_data.sizes,
     style_preferences |-> IF TruthyList(profile.style_preferences)
                           THEN merged_data.style_preferences \o profile.style_preferences
                           ELSE merged_data.style_preferences,
     favorite_colors |-> IF TruthyList(profile.favorite_colors)
                         THEN merged_data.favorite_colors \o profile.favorite_colors
                         ELSE merged_data.favorite_colors,
     disliked_items |-> IF TruthyList(profile.disliked_items)
                        THEN merged_data.disliked_items \o profile.disliked_items
                        ELSE merged_data.disliked_items]

RECURSIVE MergeLoop(_, _)
\* lines 192-214: for profile in profiles
MergeLoop(merged_data, profiles) ==
    IF profiles = <<>> THEN merged_data
    ELSE MergeLoop(MergeStep(merged_data, rows[Head(profiles)]), Tail(profiles))

\* lines 216-233: the possible new entities (list(set(...)) leaves the order open)
MergedProfiles(user_id, new_profile_name, profiles) ==
    LET merged_data == MergeLoop(EmptyMergedData, profiles)
    IN  { StyleProfile(user_id, new_profile_name,
                       "Merged profile from " \o ToString(Len(profiles)) \o " profiles",
                       merged_data.body_shape, merged_data.skin_tone, merged_data.height,
                       merged_data.sizes, sp, fc, di) :
            sp \in ListSet(merged_data.style_preferences),
            fc \in ListSet(merged_data.favorite_colors),
            di \in ListSet(merged_data.disliked_items) }

\* a plausible slip: merged_data["sizes"] starts as the first profile's own dict,
\* which update() then changes in place
MergeTouchedAliased(profiles, db_profile) ==
    IF profiles = <<>> THEN {}
    ELSE {[id |-> Head(profiles),
           obj |-> [rows[Head(profiles)] EXCEPT !.sizes = db_profile.sizes]]}

\* lines 181-214: the loaded entities the loop changes: none, it accumulates
\* into containers of its own
MergeTouched(profiles, db_profile) == {}

merge_profiles(user_id, profile_ids, new_profile_name, reply, commit) ==
    /\ session = CleanSession
    /\ commits < MaxCommits
    /\ UNCHANGED tx
    /\ pre' = rows
    /\ \E profiles \in LoadProfiles(profile_ids, user_id) :
        IF CountMismatch(profiles, profile_ids)
        THEN /\ calls' = <<>>
             /\ outcome' = Result("merge_profiles", user_id, profile_ids, NoAnalysis,
                                  profiles, "HTTPException", 404,
                                  <<"One or more profiles not found">>, NoProfile, NoReply)
             /\ UNCHANGED <<rows, session, embSrc, commits>>
        ELSE \E db_profile \in MergedProfiles(user_id, new_profile_name, profiles) :
             LET text == _profile_to_text(db_profile)
                 emb == generate_style_embedding(reply)
                 embedded == [db_profile EXCEPT !.style_embedding = emb.vec]
                 touched == MergeTouched(profiles, db_profile)
             IN  IF emb.raised
                 THEN /\ calls' = <<"embed">>
                      /\ session' = [session EXCEPT !.dirty = touched]
                      /\ outcome' = Result("merge_profiles", user_id, profile_ids,
                                           NoAnalysis, profiles, "HTTPException",
                                           emb.status, emb.detail, db_profile, reply)
                      /\ UNCHANGED <<rows, embSrc, commits>>
                 ELSE IF commit # None
                 THEN /\ calls' = <<"embed", "add", "commit">>
                      /\ session' = [dirty |-> touched, new |-> <<embedded>>]
                      /\ outcome' = Result("merge_profiles", user_id, profile_ids,
                                           NoAnalysis, profiles, "Exception", 0,
                                           <<commit>>, embedded, reply)
                      /\ UNCHANGED <<rows, embSrc, commits>>
                 ELSE /\ calls' = <<"embed", "add", "commit", "refresh">>
                      /\ commits' = commits + 1
                      /\ rows' = Flush(rows, [dirty |-> touched, new |-> <<embedded>>])
                      /\ embSrc' = Append(embSrc, text)
                      /\ session' = CleanSession
                      /\ outcome' = Result("merge_profiles", user_id, profile_ids,
                                           NoAnalysis, profiles, "none", 200, <<>>,
                                           embedded, reply)

(***************************************************************************)
(* StyleProfileService._cosine_similarity                                  *)
(*                                                                         *)
(* A float quotient a / b of two whole numbers is kept as the fraction     *)
(* <<a, b>> with b > 0.  Division is correctly rounded, so two such        *)
(* quotients compare as floats the way the fractions compare.  The vectors *)
(* of the model have whole magnitudes, for which ** 0.5 is exact.          *)
(***************************************************************************)
RECURSIVE Sum(_)
Sum(s) == IF s = <<>> THEN 0 ELSE s[1] + Sum(Tail(s))

\* x ** 0.5 of a sum of squares that is a square
Sqrt(n) == CHOOSE r \in 0..n : r * r = n

Less(a, b) == a[1] * b[2] < b[1] * a[2]
Same(a, b) == a[1] * b[2] = b[1] * a[2]
Zero == <<0, 1>>

\* a plausible slip: the guard against a zero magnitude left out
_cosine_similarity_unguarded(vec1, vec2) ==
    IF Len(vec1) # Len(vec2)
    THEN [raised |-> "ValueError", detail |-> <<"Vectors must have the same length">>,
          value |-> Zero]
    ELSE LET dot_product == Sum([i \in 1..Len(vec1) |-> vec1[i] * vec2[i]])
             magnitude1 == Sqrt(Sum([i \in 1..Len(vec1) |-> vec1[i] * vec1[i]]))
             magnitude2 == Sqrt(Sum([i \in 1..Len(vec2) |-> vec2[i] * vec2[i]]))
         IN  IF magnitude1 * magnitude2 = 0
             THEN [raised |-> "ZeroDivisionError", detail |-> <<"float division by zero">>,
                   value |-> Zero]
             ELSE [raised |-> "none", detail |-> <<>>,
                   value |-> <<dot_product, magnitude1 * magnitude2>>]

\* lines 390-405: the similarity, or the ValueError of line 392
_cosine_similarity(vec1, vec2) ==
    IF Len(vec1) # Len(vec2)
    THEN [raised |-> "ValueError", detail |-> <<"Vectors must have the same length">>,
          value |-> Zero]
    ELSE LET dot_product == Sum([i \in 1..Len(vec1) |-> vec1[i] * vec2[i]])
             magnitude1 == Sqrt(Sum([i \in 1..Len(vec1) |-> vec1[i] * vec1[i]]))
             magnitude2 == Sqrt(Sum([i \in 1..Len(vec2) |-> vec2[i] * vec2[i]]))
         IN  IF magnitude1 = 0 \/ magnitude2 = 0
             THEN [raised |-> "none", detail |-> <<>>, value |-> Zero]
             ELSE [raised |-> "none", detail |-> <<>>,
                   value |-> <<dot_product, magnitude1 * magnitude2>>]

(***************************************************************************)
(* StyleProfileService.find_similar_profiles                               *)
(***************************************************************************)
\* bool(profile.style_embedding): NULL and the empty list are both false
TruthyVec(v) == v # NoneVec

\* a plausible slip: an entry goes in front of the entries of equal similarity
RECURSIVE InsertBeforeEqual(_, _)
InsertBeforeEqual(sorted, x) ==
    IF sorted = <<>> THEN <<x>>
    ELSE IF ~Less(x.similarity, sorted[1].similarity) THEN <<x>> \o sorted
    ELSE <<sorted[1]>> \o InsertBeforeEqual(Tail(sorted), x)

\* list.sort(key=..., reverse=True) is stable: an entry goes behind every
\* entry already placed whose similarity is not smaller
RECURSIVE Insert(_, _)
Insert(sorted, x) ==
    IF sorted = <<>> THEN <<x>>
    ELSE IF Less(sorted[1].similarity, x.similarity) THEN <<x>> \o sorted
    ELSE <<sorted[1]>> \o Insert(Tail(sorted), x)

RECURSIVE SortDescending(_)
\* line 311
SortDescending(similarities) ==
    IF similarities = <<>> THEN <<>>
    ELSE Insert(SortDescending(SubSeq(similarities, 1, Len(similarities) - 1)),
                similarities[Len(similarities)])

\* xs[:limit]: a negative limit counts from the end
Slice(xs, limit) ==
    SubSeq(xs, 1, IF limit >= 0 THEN (IF limit < Len(xs) THEN limit ELSE Len(xs))
                  ELSE IF Len(xs) + limit > 0 THEN Len(xs) + limit ELSE 0)

\* a plausible slip: every row loaded is a candidate
CandidatesUnfiltered(profiles) == profiles

\* lines 303-305: the rows loaded that have an embedding, in load order
Candidates(profiles) ==
    SelectSeq(profiles, LAMBDA i : TruthyVec(rows[i].style_embedding))

SimilarResult(embedding, limit, loaded, raised, detail, similarities, result) ==
    [op |-> "find_similar_profiles", user_id |-> 0, ids |-> <<>>, analysis |-> NoAnalysis,
     loaded |-> loaded, raised |-> raised, status |-> 0, detail |-> detail,
     profile |-> NoProfile, reply |-> NoReply,
     embedding |-> embedding, limit |-> limit, similarities |-> similarities,
     result |-> result]

\* lines 280-314; db.query(StyleProfile).all() has no ORDER BY
find_similar_profiles(embedding, limit) ==
    /\ session = CleanSession
    /\ commits < MaxCommits
    /\ UNCHANGED tx
    /\ \E profiles \in Orders(1..Len(rows)) :
          LET candidates == Candidates(profiles)
              scored == [k \in 1..Len(candidates) |->
                            _cosine_similarity(embedding,
                                               rows[candidates[k]].style_embedding)]
              failed == {k \in 1..Len(candidates) : scored[k].raised # "none"}
              first == CHOOSE k \in failed : \A j \in failed : k <= j
              similarities == [k \in 1..Len(candidates) |->
                                  [profile |-> candidates[k],
                                   similarity |-> scored[k].value]]
              top == Slice(SortDescending(similarities), limit)
          IN  IF failed # {}
              THEN outcome' = SimilarResult(embedding, limit, profiles,
                                            scored[first].raised, scored[first].detail,
                                            <<>>, <<>>)
              ELSE outcome' = SimilarResult(embedding, limit, profiles, "none", <<>>,
                                            similarities,
                                            [k \in 1..Len(top) |-> top[k].profile])
    /\ pre' = rows
    /\ calls' = <<>>
    /\ UNCHANGED <<rows, session, embSrc, commits>>

(***************************************************************************)
(* update_profile_from_analysis in requests that run next to each other:   *)
(* each has its own session and entity; what one request does between its *)
(* query and its commit is not seen by the other                           *)
(***************************************************************************)
\* a plausible slip: the entity served from what was loaded at the start and
\* never refreshed
LoadedRowStale(profile_id) == pre[profile_id]

\* line 108: the query reads the row as committed
LoadedRow(profile_id) == rows[profile_id]

\* db.commit(): the UPDATE sets the attributes whose value is not the loaded one
FlushChanges(row, loaded, entity) ==
    [f \in DOMAIN row |-> IF entity[f] # loaded[f] THEN entity[f] ELSE row[f]]

\* lines 108-140: the query and the attribute updates on the loaded entity
tx_load(p, profile_id, analysis_results) ==
    /\ tx[p].pc = "idle"
    /\ IF profile_id \notin 1..Len(rows)
       THEN tx' = [tx EXCEPT ![p] = [IdleTx EXCEPT !.pc = "done", !.id = profile_id,
                                        !.analysis = analysis_results, !.at = commits,
                                        !.raised = "HTTPException"]]
       ELSE \E db_profile \in AnalysisUpdates(LoadedRow(profile_id), analysis_results) :
               tx' = [tx EXCEPT ![p] =
                        [pc |-> "loaded", id |-> profile_id, analysis |-> analysis_results,
                         loaded |-> LoadedRow(profile_id), entity |-> db_profile,
                         text |-> _profile_to_text(db_profile), at |-> commits,
                         raised |-> "none"]]
    /\ UNCHANGED <<rows, session, calls, outcome, pre, embSrc, commits>>

\* lines 143-144: the embedding of the entity as this request has it
tx_embed(p, reply) ==
    LET emb == generate_style_embedding(reply)
    IN  /\ tx[p].pc = "loaded"
        /\ tx' = [tx EXCEPT ![p] =
                    IF emb.raised
                    THEN [@ EXCEPT !.pc = "done", !.raised = "HTTPException"]
                    ELSE [@ EXCEPT !.pc = "embedded",
                                   !.entity = SetEmbedding(@, emb.vec)]]
        /\ UNCHANGED <<rows, session, calls, outcome, pre, embSrc, commits>>

\* lines 147-148
tx_commit(p, commit) ==
    LET t == tx[p]
        written == t.entity.style_embedding # t.loaded.style_embedding
    IN  /\ t.pc = "embedded"
        /\ IF commit # None
           THEN /\ tx' = [tx EXCEPT ![p] = [@ EXCEPT !.pc = "done", !.raised = "Exception"]]
                /\ UNCHANGED <<rows, embSrc, commits>>
           ELSE /\ tx' = [tx EXCEPT ![p] = [@ EXCEPT !.pc = "done"]]
                /\ rows' = [rows EXCEPT ![t.id] = FlushChanges(@, t.loaded, t.entity)]
                /\ embSrc' = [embSrc EXCEPT ![t.id] =
                                 IF written \/ rows[t.id].style_embedding = t.entity.style_embedding
                                 THEN t.text ELSE @]
                /\ commits' = commits + 1
        /\ UNCHANGED <<session, calls, outcome, pre>>

(***************************************************************************)
(* generate_style_embedding, lines 259-263: the renderer is chosen by the   *)
(* type of the argument, _profile_to_text for an entity and                *)
(* _profile_dict_to_text for a mapping                                     *)
(***************************************************************************)
\* the NULL of a column
NullOf(f) ==
    IF f = "sizes" THEN NoneDict
    ELSE IF f \in {"style_preferences", "favorite_colors", "disliked_items"} THEN NoneList
    ELSE None

\* the entity that holds the values of a mapping, a missing key as NULL
EntityOf(bag) == [f \in EmbeddedFields |-> IF f \in DOMAIN bag THEN bag[f] ELSE NullOf(f)]

\* the texts of the same attribute values handed over as an entity and as a
\* mapping
render_profile(bag) ==
    /\ outcome.op = "none"
    /\ outcome' = [op |-> "render_profile", raised |-> "none", bag |-> bag,
                   entity_text |-> _profile_to_text(EntityOf(bag)),
                   dict_text |-> _profile_dict_to_text(bag)]
    /\ UNCHANGED <<rows, session, calls, pre, embSrc, commits, tx>>

(***************************************************************************)
(* The service and the router, from an empty table                         *)
(***************************************************************************)
\* profile_ids of a merge request over the ids 1..n and one id beyond
IdLists(n) == UNION {[1..k -> 1..(n + 1)] : k \in 0..MaxIds}

Next ==
    \/ get_db_close
    \/ \E u \in Users, d \in CreatePayloads, c \in RouterCommitReplies :
          create_style_profile(u, d, c)
    \/ \E u \in Users, a \in Analyses, r \in EmbeddingReplies, c \in CommitReplies :
          create_profile_from_analysis(u, a, "Default Profile", r, c)
    \/ \E i \in 1..MaxCommits, u \in Users, d \in UpdatePayloads, c \in RouterCommitReplies :
          update_style_profile(i, u, d, c)
    \/ \E i \in 1..MaxCommits, a \in Analyses, r \in EmbeddingReplies, c \in CommitReplies :
          update_profile_from_analysis(i, a, r, c)
    \/ \E u \in Users, ids \in IdLists(MaxCommits), r \in EmbeddingReplies, c \in CommitReplies :
          merge_profiles(u, ids, "Merged Profile", r, c)
    \/ \E e \in {<<1, 0>>, <<0, 0>>, <<1, 0, 0>>}, l \in {0, 1, 5} :
          find_similar_profiles(e, l)

Spec == Init /\ [][Next]_vars

(***************************************************************************)
(* One operation on a table that earlier requests have filled              *)
(***************************************************************************)
\* a row as POST and an analysis update leave it; the seeded tables vary one
\* attribute of it from row to row
BaseProfile ==
    [StyleProfile(1, "Seed", None, "pear", "warm", "170.0", <<<<"top", "M">>>>,
                  <<"casual">>, <<"blue">>, <<"crop tops">>)
        EXCEPT !.style_embedding = <<1, 0>>]

FieldValues(f) ==
    CASE f = "body_shape" -> {None, "", "pear", "hourglass"}
      [] f = "skin_tone" -> {None, "warm", "cool"}
      [] f = "height" -> {None, "165.0", "180.5"}
      [] f = "sizes" -> {NoneDict, <<<<"top", "M">>>>,
                         <<<<"top", "S">>, <<"bottom", "30">>>>,
                         <<<<"bottom", "32">>, <<"shoes", "9">>>>}
      [] f = "style_preferences" -> {<<>>, <<"casual", "modern">>,
                                     <<"elegant", "casual">>, <<"boho", "boho">>}
      [] f = "favorite_colors" -> {NoneList, <<"blue">>, <<"black", "blue">>}
      [] f = "disliked_items" -> {<<>>, <<"crop tops">>, <<"heels", "heels">>}
      [] f = "name" -> {"Seed", "Work"}
      [] f = "style_embedding" -> {NoneVec, <<0, 0>>, <<1, 0>>, <<0, 1>>, <<3, 4>>,
                                   <<-1, 0>>, <<1, 0, 0>>}

\* tables of up to MaxSeedRows rows that differ in one of `fields`; the rows
\* are user 1's, but for the last one, which may be user 2's
SeedTables(fields) ==
    UNION { UNION { { [i \in 1..n |->
                        [BaseProfile EXCEPT ![f] = vals[i],
                                            !.user_id = IF i = foreign THEN 2 ELSE 1]] :
                      vals \in [1..n -> FieldValues(f)], foreign \in {0, n} } :
                    n \in 0..MaxSeedRows } :
            f \in fields }

InitSeeded(fields) ==
    /\ rows \in SeedTables(fields)
    /\ session = CleanSession
    /\ calls = <<>>
    /\ outcome = Result("none", 0, <<>>, NoAnalysis, <<>>, "none", 0, <<>>, NoProfile, NoReply)
    /\ pre = rows
    /\ embSrc = [i \in 1..Len(rows) |->
                    IF rows[i].style_embedding = NoneVec THEN <<>>
                    ELSE _profile_to_text(rows[i])]
    /\ commits = 0
    /\ tx = [p \in Procs |-> IdleTx]

\* merge_profiles, once, on every seeded table
InitMerge == InitSeeded(EmbeddedFields)

NextMerge ==
    \/ get_db_close
    \/ /\ outcome.op = "none"
       /\ \E u \in Users, ids \in IdLists(MaxSeedRows),
             r \in EmbeddingReplies, c \in CommitReplies :
             merge_profiles(u, ids, "Merged Profile", r, c)

SpecMerge == InitMerge /\ [][NextMerge]_vars

\* create_profile_from_analysis, once, on a seeded table, for analysis results
\* with each group absent, empty or filled
WideAnalyses ==
    { [g \in D |-> CASE g = "person_attributes" -> p
                     [] g = "style_assessment" -> a
                     [] g = "size_estimation" -> z] :
        D \in SUBSET {"person_attributes", "style_assessment", "size_estimation"},
        p \in {<<>>, [body_shape |-> "pear"], [skin_tone |-> "cool"],
               [body_shape |-> "hourglass", skin_tone |-> "warm"]},
        a \in {<<>>, [style_descriptors |-> <<"casual", "modern">>],
               [color_palette |-> <<"blue">>],
               [style_descriptors |-> <<"boho", "boho">>,
                color_palette |-> <<"black", "blue">>]},
        z \in {<<>>, <<<<"top", "M">>>>, <<<<"top", "S">>, <<"bottom", "30">>>>} }

InitCreate == InitSeeded({"skin_tone"})

NextCreate ==
    \/ get_db_close
    \/ /\ outcome.op = "none"
       /\ \E u \in Users, a \in WideAnalyses, r \in EmbeddingReplies, c \in CommitReplies :
             create_profile_from_analysis(u, a, "Default Profile", r, c)

SpecCreate == InitCreate /\ [][NextCreate]_vars

\* find_similar_profiles, once, on tables whose rows differ in their embedding:
\* none, the zero vector, vectors of the query's length and a longer one
QueryEmbeddings == {<<1, 0>>, <<0, 1>>, <<3, 4>>, <<0, 0>>}
Limits == (-1)..(MaxSeedRows + 1)

InitSimilar == InitSeeded({"style_embedding"})

NextSimilar ==
    /\ outcome.op = "none"
    /\ \E e \in QueryEmbeddings, l \in Limits : find_similar_profiles(e, l)

SpecSimilar == InitSimilar /\ [][NextSimilar]_vars

\* update_profile_from_analysis, once, on a seeded table, for a stored and an
\* unknown id and for analysis results with each group absent, empty or filled
UpdateAnalyses ==
    { [g \in D |-> CASE g = "person_attributes" -> p
                     [] g = "style_assessment" -> a
                     [] g = "size_estimation" -> z] :
        D \in {{}, {"person_attributes"}, {"style_assessment", "size_estimation"},
               {"person_attributes", "style_assessment", "size_estimation"}},
        p \in {<<>>, [body_shape |-> "hourglass"], [body_shape |-> "", skin_tone |-> "cool"]},
        a \in {[style_descriptors |-> <<>>],
               [style_descriptors |-> <<"casual", "modern">>,
                color_palette |-> <<"black">>]},
        z \in {<<>>, <<<<"top", "S">>, <<"bottom", "30">>>>} }

InitUpdate == InitSeeded({"sizes", "style_preferences", "favorite_colors"})

NextUpdate ==
    \/ get_db_close
    \/ /\ outcome.op = "none"
       /\ \E i \in 1..(MaxSeedRows + 1), a \in UpdateAnalyses,
             r \in EmbeddingReplies, c \in CommitReplies :
             update_profile_from_analysis(i, a, r, c)

SpecUpdate == InitUpdate /\ [][NextUpdate]_vars

\* merge_profiles on a seeded table, and the same request once more after it
\* has succeeded
InitMergeTwice == InitSeeded({"style_preferences"})

NextMergeTwice ==
    \/ get_db_close
    \/ /\ outcome.op = "none"
       /\ \E u \in Users, ids \in IdLists(MaxSeedRows),
             r \in EmbeddingReplies, c \in CommitReplies :
             merge_profiles(u, ids, "Merged Profile", r, c)
    \/ /\ outcome.op = "merge_profiles"
       /\ outcome.raised = "none"
       /\ commits = 1
       /\ \E r \in EmbeddingReplies, c \in CommitReplies :
             merge_profiles(outcome.user_id, outcome.ids, "Merged Profile", r, c)

SpecMergeTwice == InitMergeTwice /\ [][NextMergeTwice]_vars

\* two update_profile_from_analysis requests on a seeded table, in every
\* interleaving of their queries, embedding requests and commits
ConcurrentAnalyses ==
    { ("person_attributes" :> [body_shape |-> "hourglass"])
        @@ ("style_assessment" :> [style_descriptors |-> <<"modern">>]),
      ("style_assessment" :> [style_descriptors |-> <<"elegant">>,
                              color_palette |-> <<"black">>])
        @@ ("size_estimation" :> <<<<"bottom", "30">>>>) }

InitConcurrent == InitSeeded({"name"})

NextConcurrent ==
    \/ \E p \in Procs, i \in 1..(MaxSeedRows + 1), a \in ConcurrentAnalyses : tx_load(p, i, a)
    \/ \E p \in Procs, r \in EmbeddingReplies : tx_embed(p, r)
    \/ \E p \in Procs, c \in CommitReplies : tx_commit(p, c)

SpecConcurrent == InitConcurrent /\ [][NextConcurrent]_vars

\* one operation of the service, whichever, on a seeded table
InitOnce == InitSeeded({"skin_tone"})

NextOnce ==
    \/ get_db_close
    \/ /\ outcome.op = "none"
       /\ \E u \in Users, a \in Analyses, r \in EmbeddingReplies, c \in CommitReplies :
             create_profile_from_analysis(u, a, "Default Profile", r, c)
    \/ /\ outcome.op = "none"
       /\ \E i \in 1..(MaxSeedRows + 1), a \in Analyses,
             r \in EmbeddingReplies, c \in CommitReplies :
             update_profile_from_analysis(i, a, r, c)
    \/ /\ outcome.op = "none"
       /\ \E u \in Users, ids \in IdLists(MaxSeedRows),
             r \in EmbeddingReplies, c \in CommitReplies :
             merge_profiles(u, ids, "Merged Profile", r, c)

SpecOnce == InitOnce /\ [][NextOnce]_vars

\* update_profile_from_analysis on a seeded table, and the same request once
\* more after it has succeeded
InitUpdateTwice == InitSeeded({"sizes", "style_preferences"})

NextUpdateTwice ==
    \/ get_db_close
    \/ /\ outcome.op = "none"
       /\ \E i \in 1..(MaxSeedRows + 1), a \in Analyses,
             r \in EmbeddingReplies, c \in CommitReplies :
             update_profile_from_analysis(i, a, r, c)
    \/ /\ outcome.op = "update_profile_from_analysis"
       /\ outcome.raised = "none"
       /\ commits = 1
       /\ \E r \in EmbeddingReplies, c \in CommitReplies :
             update_profile_from_analysis(outcome.ids[1], outcome.analysis, r, c)

SpecUpdateTwice == InitUpdateTwice /\ [][NextUpdateTwice]_vars

\* the renderers on attribute bags: every subset of the keys, with values that
\* are all set, all empty, or set with several list elements
BagValues ==
    { [body_shape |-> "pear", skin_tone |-> "warm", height |-> "170.0",
       sizes |-> <<<<"top", "M">>>>, style_preferences |-> <<"casual">>,
       favorite_colors |-> <<"blue">>, disliked_items |-> <<"crop tops">>],
      [body_shape |-> "", skin_tone |-> None, height |-> "0.0",
       sizes |-> <<>>, style_preferences |-> <<>>,
       favorite_colors |-> NoneList, disliked_items |-> <<>>],
      [body_shape |-> None, skin_tone |-> "cool", height |-> "180.5",
       sizes |-> <<<<"top", "S">>, <<"bottom", "30">>>>,
       style_preferences |-> <<"elegant", "casual">>,
       favorite_colors |-> <<"black", "blue">>, disliked_items |-> <<"heels", "heels">>] }

Bags == { [f \in D |-> v[f]] : D \in SUBSET EmbeddedFields, v \in BagValues }

InitRender == Init

NextRender == \E bag \in Bags : render_profile(bag)

SpecRender == InitRender /\ [][NextRender]_vars

(***************************************************************************)
(* Properties                                                              *)
(***************************************************************************)
Created == outcome.op = "create_profile_from_analysis"
Updated == outcome.op = "update_profile_from_analysis"
Merged == outcome.op = "merge_profiles"
Count(s, x) == Cardinality({i \in 1..Len(s) : s[i] = x})

\* C1: create_profile_from_analysis never persists a profile without an
\* embedding: when the embedding request fails nothing is added to the session
\* or committed, and a row it does persist carries the vector the embedding
\* service returned.
CreateNeverPersistsWithoutEmbedding ==
    Created =>
        /\ ~outcome.reply.ok =>
              /\ rows = pre
              /\ session = CleanSession
              /\ "add" \notin Range(calls)
              /\ "commit" \notin Range(calls)
        /\ rows # pre =>
              /\ outcome.reply.ok
              /\ rows = Append(pre, outcome.profile)
              /\ rows[Len(rows)].style_embedding = outcome.reply.vec
              /\ rows[Len(rows)].style_embedding # NoneVec

\* C1 witness: a create whose embedding request failed, on a table with rows
CreateEmbeddingFailed ==
    /\ Created
    /\ ~outcome.reply.ok
    /\ outcome.raised = "HTTPException"
    /\ pre # <<>>

\* C2: after any sequence of operations, a committed row that has an
\* embedding and whose body_shape, skin_tone, height, sizes,
\* style_preferences, favorite_colors or disliked_items the last operation
\* changed (or which a service operation just created) has an embedding
\* generated from the text of its current attribute values.
NoStaleEmbedding ==
    \A i \in 1..Len(rows) :
        (IF i <= Len(pre)
         THEN /\ pre[i].style_embedding # NoneVec
              /\ \E f \in EmbeddedFields : rows[i][f] # pre[i][f]
         ELSE Created \/ Merged)
        => /\ rows[i].style_embedding # NoneVec
           /\ embSrc[i] = _profile_to_text(rows[i])

\* C3: when the embedding request fails in update_profile_from_analysis, the
\* loaded entity equals the committed row and the session holds no pending
\* change.
UpdateEmbeddingFailureLeavesNothing ==
    (Updated /\ outcome.status = 500) =>
        /\ outcome.profile = pre[outcome.ids[1]]
        /\ session.dirty = {}

\* C4: when db.commit() fails in create_profile_from_analysis, rollback is
\* called exactly once and an HTTPException carrying the storage error's
\* message is raised.
CreateCommitFailureRollsBack ==
    (Created /\ outcome.reply.ok /\ outcome.raised # "none") =>
        /\ Count(calls, "rollback") = 1
        /\ outcome.raised = "HTTPException"
        /\ "Database error" \in Range(outcome.detail)

\* the rows of pre that a merge request (ids, user) names and the user owns
Owned(ids, user) == {i \in 1..Len(pre) : i \in Range(ids) /\ pre[i].user_id = user}

\* C5: merge_profiles answers 404 'One or more profiles not found' whenever
\* the number of rows the request names and the user owns differs from the
\* number of ids requested; it then makes no embedding request and adds and
\* commits nothing.
MergeCountMismatchIsNotFound ==
    (Merged /\ Cardinality(Owned(outcome.ids, outcome.user_id)) # Len(outcome.ids)) =>
        /\ outcome.raised = "HTTPException"
        /\ outcome.status = 404
        /\ outcome.detail = <<"One or more profiles not found">>
        /\ calls = <<>>
        /\ rows = pre
        /\ session = CleanSession
        /\ outcome.profile = NoProfile

\* C5 witness: a request refused although some of its ids were found
MergePartlyFound ==
    /\ Merged
    /\ outcome.status = 404
    /\ outcome.loaded # <<>>
    /\ Len(outcome.loaded) < Len(outcome.ids)

\* C6: a merge over no profile ids fails, before any embedding request, and
\* creates no profile.
EmptyMergeFails ==
    (Merged /\ outcome.ids = <<>>) =>
        /\ outcome.raised # "none"
        /\ "embed" \notin Range(calls)
        /\ rows = pre

\* C7: merge_profiles leaves every row that existed as it was, whether it
\* succeeds or fails, leaves no change to a loaded entity pending, and on
\* success the table is the old one with the new profile added.
MergePreservesSources ==
    Merged =>
        /\ Len(rows) >= Len(pre)
        /\ \A i \in 1..Len(pre) : rows[i] = pre[i]
        /\ session.dirty = {}
        /\ IF outcome.raised = "none"
           THEN rows = Append(pre, outcome.profile)
           ELSE rows = pre

\* C7 witness: a successful merge of two rows with different sizes
MergedTwoSources ==
    /\ Merged
    /\ outcome.raised = "none"
    /\ Len(outcome.loaded) = 2
    /\ pre[outcome.loaded[1]].sizes # pre[outcome.loaded[2]].sizes
    /\ Len(rows) = Len(pre) + 1

\* the entity a merge built from the rows it loaded, in the order loaded
MergeBuilt == Merged /\ outcome.profile # NoProfile
Source(i) == pre[outcome.loaded[i]]
HasValue(v) == v # None /\ v # ""
Max(S) == CHOOSE x \in S : \A y \in S : y <= x

SizesOf(p) == IF p.sizes = NoneDict THEN <<>> ELSE p.sizes

\* C9: the merged sizes have exactly the keys of the loaded profiles' sizes,
\* each with the value of the last loaded profile that has the key.
MergeSizesShallowUnion ==
    MergeBuilt =>
        /\ DictKeys(outcome.profile.sizes) =
              UNION {DictKeys(SizesOf(Source(i))) : i \in 1..Len(outcome.loaded)}
        /\ Len(outcome.profile.sizes) = Cardinality(DictKeys(outcome.profile.sizes))
        /\ \A k \in DictKeys(outcome.profile.sizes) :
              LET having == {i \in 1..Len(outcome.loaded) : k \in DictKeys(SizesOf(Source(i)))}
              IN  DictGet(outcome.profile.sizes, k) = DictGet(SizesOf(Source(Max(having))), k)

\* C9 witness: two loaded profiles give different values for one key
MergeOverwroteSize ==
    /\ MergeBuilt
    /\ Len(outcome.loaded) = 2
    /\ \E k \in DictKeys(SizesOf(Source(1))) \cap DictKeys(SizesOf(Source(2))) :
          DictGet(SizesOf(Source(1)), k) # DictGet(SizesOf(Source(2)), k)

ListOf(l) == IF l = NoneList THEN <<>> ELSE l

\* C10: each of the merged style_preferences, favorite_colors and
\* disliked_items holds no string twice, and its elements are those of the
\* loaded profiles' lists.
MergeDeduplicates ==
    MergeBuilt =>
        \A f \in {"style_preferences", "favorite_colors", "disliked_items"} :
            /\ Cardinality(Range(outcome.profile[f])) = Len(outcome.profile[f])
            /\ Range(outcome.profile[f]) =
                  UNION {Range(ListOf(Source(i)[f])) : i \in 1..Len(outcome.loaded)}

\* C10 witness: a string that two loaded profiles share is in the merged list once
MergeDroppedDuplicate ==
    /\ MergeBuilt
    /\ Len(outcome.loaded) = 2
    /\ Range(ListOf(Source(1).style_preferences))
          \cap Range(ListOf(Source(2).style_preferences)) # {}
    /\ Source(1).style_preferences # Source(2).style_preferences

(***************************************************************************)
(* find_similar_profiles                                                   *)
(***************************************************************************)
Searched == outcome.op = "find_similar_profiles"
Returned == Searched /\ outcome.raised = "none"

\* the similarity the operation computed for the row with id i, and the place
\* of that row among the rows loaded
SimilarityOf(i) ==
    LET k == CHOOSE k \in 1..Len(outcome.similarities) : outcome.similarities[k].profile = i
    IN  outcome.similarities[k].similarity
Scored(i) == \E k \in 1..Len(outcome.similarities) : outcome.similarities[k].profile = i
LoadedAt(i) == CHOOSE k \in 1..Len(outcome.loaded) : outcome.loaded[k] = i

\* the rows that qualify for a query: an embedding, of the query's length
Qualifying ==
    {i \in 1..Len(rows) :
        /\ rows[i].style_embedding # NoneVec
        /\ Len(rows[i].style_embedding) = Len(outcome.embedding)}

\* C11: the profiles find_similar_profiles returns are qualifying profiles,
\* each once, in descending order of similarity to the query, and profiles of
\* equal similarity are in the order in which they were loaded.
SimilarSortedStable ==
    Returned =>
        LET r == outcome.result
        IN  /\ Range(r) \subseteq Qualifying
            /\ \A a, b \in 1..Len(r) :
                  a < b =>
                     /\ r[a] # r[b]
                     /\ ~Less(SimilarityOf(r[a]), SimilarityOf(r[b]))
                     /\ Same(SimilarityOf(r[a]), SimilarityOf(r[b]))
                           => LoadedAt(r[a]) < LoadedAt(r[b])

\* C11 witness: two profiles of equal similarity returned in load order, the
\* one with the larger id first
SimilarTieKeptLoadOrder ==
    /\ Returned
    /\ Len(outcome.result) >= 2
    /\ Same(SimilarityOf(outcome.result[1]), SimilarityOf(outcome.result[2]))
    /\ outcome.result[1] > outcome.result[2]

\* a result whose first profile is strictly more similar than its second, and
\* was loaded after it
SimilarStrictlyDescending ==
    /\ Returned
    /\ Len(outcome.result) >= 2
    /\ Less(SimilarityOf(outcome.result[2]), SimilarityOf(outcome.result[1]))
    /\ LoadedAt(outcome.result[2]) < LoadedAt(outcome.result[1])

Min(a, b) == IF a < b THEN a ELSE b
PlaceOf(i) == CHOOSE k \in 1..Len(outcome.result) : outcome.result[k] = i
IsZeroVec(v) == v # <<>> /\ \A k \in 1..Len(v) : v[k] = 0

\* the rows with an embedding whose length is not the query's
Mismatched ==
    {i \in 1..Len(rows) :
        /\ rows[i].style_embedding # NoneVec
        /\ Len(rows[i].style_embedding) # Len(outcome.embedding)}

\* C12: for a positive limit find_similar_profiles never raises and returns
\* min(limit, number of qualifying profiles) profiles, none of them less
\* similar to the query than a qualifying profile it left out.
SimilarReturnsTopLimit ==
    (Searched /\ outcome.limit >= 1) =>
        /\ outcome.raised = "none"
        /\ Len(outcome.result) = Min(outcome.limit, Cardinality(Qualifying))
        /\ \A i \in Qualifying \ Range(outcome.result), j \in Range(outcome.result) :
              ~Less(SimilarityOf(j), SimilarityOf(i))

\* C13: with a limit of zero or less find_similar_profiles fails with
\* InvalidLimitError and returns no profile.
NonPositiveLimitFails ==
    (Searched /\ outcome.limit <= 0) =>
        /\ outcome.raised = "InvalidLimitError"
        /\ outcome.result = <<>>

\* C14: a profile whose embedding has another length than the query is left
\* out without an error: the call returns, the profile is not in the result,
\* and the qualifying profiles are ranked as if it were not there.
MismatchedLengthIsSkipped ==
    (Searched /\ Mismatched # {}) =>
        /\ outcome.raised = "none"
        /\ Range(outcome.result) \cap Mismatched = {}
        /\ outcome.limit >= Cardinality(Qualifying) => Range(outcome.result) = Qualifying

\* C15: a profile without an embedding is never in the result of
\* find_similar_profiles and is never what makes the call fail: a call that
\* raises has met a profile that does have an embedding.
NullEmbeddingIsSkipped ==
    Searched =>
        /\ \A i \in Range(outcome.result) : rows[i].style_embedding # NoneVec
        /\ \A k \in 1..Len(outcome.similarities) :
              rows[outcome.similarities[k].profile].style_embedding # NoneVec
        /\ outcome.raised # "none" => Mismatched # {}

\* C15 witness: a call that returned a profile, from a table that also holds
\* a profile without an embedding, loaded first
NullEmbeddingPassedOver ==
    /\ Returned
    /\ outcome.result # <<>>
    /\ Len(outcome.loaded) >= 2
    /\ rows[outcome.loaded[1]].style_embedding = NoneVec

\* C16: a query or a candidate of magnitude zero gives the similarity 0 and
\* no error: no call fails on a division, and a zero-vector candidate that is
\* returned comes behind every candidate of positive similarity.
ZeroVectorSafe ==
    Searched =>
        /\ outcome.raised \in {"none", "ValueError"}
        /\ (Mismatched = {}) => outcome.raised = "none"
        /\ \A k \in 1..Len(outcome.similarities) :
              LET e == outcome.similarities[k]
              IN  (IsZeroVec(outcome.embedding) \/ IsZeroVec(rows[e.profile].style_embedding))
                     => e.similarity = Zero
        /\ \A i \in Range(outcome.result), j \in Qualifying :
              (IsZeroVec(rows[i].style_embedding) /\ Less(Zero, SimilarityOf(j)))
                 => /\ j \in Range(outcome.result)
                    /\ PlaceOf(j) < PlaceOf(i)

\* C16 witness: a zero-vector candidate returned behind a candidate of
\* positive similarity that was loaded after it
ZeroVectorRankedLast ==
    /\ Returned
    /\ Len(outcome.result) = 2
    /\ IsZeroVec(rows[outcome.result[2]].style_embedding)
    /\ Less(Zero, SimilarityOf(outcome.result[1]))
    /\ LoadedAt(outcome.result[2]) < LoadedAt(outcome.result[1])

(***************************************************************************)
(* update_profile_from_analysis                                            *)
(***************************************************************************)
UpdateTarget == outcome.ids[1]
UpdatedStored == Updated /\ UpdateTarget \in 1..Len(pre)

\* C17: update_profile_from_analysis for an id that is not stored fails with
\* HTTP 404 'Style profile not found', requests no embedding, commits nothing
\* and leaves the table and the session as they were.
UpdateUnknownProfileIsNotFound ==
    (Updated /\ UpdateTarget \notin 1..Len(pre)) =>
        /\ outcome.raised = "HTTPException"
        /\ outcome.status = 404
        /\ outcome.detail = <<"Style profile not found">>
        /\ calls = <<>>
        /\ rows = pre
        /\ session = CleanSession
        /\ commits = 0

\* C17 witness: the update of an unknown id on a table that has rows
UpdateOfUnknownProfile ==
    /\ Updated
    /\ outcome.status = 404
    /\ Len(rows) = MaxSeedRows

\* C18: update_profile_from_analysis keeps every attribute for which the
\* analysis holds no value or an empty one, never changes name, description,
\* height, disliked_items, favorite_brands or user_id, and touches no other row.
UpdateIsNonDestructive ==
    UpdatedStored =>
        LET before == pre[UpdateTarget]
            after == outcome.profile
            person_attributes == Get(outcome.analysis, "person_attributes", <<>>)
            style_assessment == Get(outcome.analysis, "style_assessment", <<>>)
            size_estimation == Get(outcome.analysis, "size_estimation", <<>>)
        IN  /\ ~TruthyStr(Get(person_attributes, "body_shape", None))
                  => after.body_shape = before.body_shape
            /\ ~TruthyStr(Get(person_attributes, "skin_tone", None))
                  => after.skin_tone = before.skin_tone
            /\ ~TruthyDict(size_estimation) => after.sizes = before.sizes
            /\ ~TruthyList(Get(style_assessment, "style_descriptors", <<>>))
                  => after.style_preferences = before.style_preferences
            /\ ~TruthyList(Get(style_assessment, "color_palette", <<>>))
                  => after.favorite_colors = before.favorite_colors
            /\ \A f \in {"name", "description", "height", "disliked_items",
                         "favorite_brands", "user_id"} : after[f] = before[f]
            /\ Len(rows) = Len(pre)
            /\ \A i \in 1..Len(rows) :
                  rows[i] = IF i = UpdateTarget /\ outcome.raised = "none" THEN after
                            ELSE pre[i]

\* C18 witness: a committed update whose analysis held an empty body shape and
\* no sizes, but a skin tone
UpdateKeptUnprovidedFields ==
    /\ UpdatedStored
    /\ outcome.raised = "none"
    /\ "person_attributes" \in DOMAIN outcome.analysis
    /\ outcome.analysis["person_attributes"] = [body_shape |-> "", skin_tone |-> "cool"]
    /\ Get(outcome.analysis, "size_estimation", <<>>) = <<>>
    /\ rows[UpdateTarget].skin_tone = "cool"
    /\ rows[UpdateTarget].body_shape = "pear"
    /\ rows[UpdateTarget].sizes = pre[UpdateTarget].sizes

\* C19: a successful update_profile_from_analysis has requested an embedding
\* before its commit, whatever the analysis held; the embedding is of the
\* profile as updated, and the row committed carries the vector returned.
UpdateAlwaysReembeds ==
    (UpdatedStored /\ outcome.raised = "none") =>
        /\ calls = <<"embed", "commit", "refresh">>
        /\ outcome.reply.ok
        /\ rows[UpdateTarget].style_embedding = outcome.reply.vec
        /\ embSrc[UpdateTarget] = _profile_to_text(rows[UpdateTarget])

\* C19 witness: a committed update that changed no attribute and replaced the
\* stored vector by another
UpdateReembeddedUnchangedProfile ==
    /\ UpdatedStored
    /\ outcome.raised = "none"
    /\ [rows[UpdateTarget] EXCEPT !.style_embedding = pre[UpdateTarget].style_embedding]
          = pre[UpdateTarget]
    /\ rows[UpdateTarget].style_embedding # pre[UpdateTarget].style_embedding

(***************************************************************************)
(* _profile_to_text                                                        *)
(***************************************************************************)
RECURSIVE Concat(_)
\* the string that a sequence of pieces stands for
Concat(pieces) == IF pieces = <<>> THEN "" ELSE pieces[1] \o Concat(Tail(pieces))

\* the fragments a profile contributes, in the fixed order, each a sentence
Fragments(profile) ==
    << <<"Body shape: ",
         IF TruthyStr(profile.body_shape) THEN profile.body_shape ELSE "unknown", ".">>,
       <<"Skin tone: ",
         IF TruthyStr(profile.skin_tone) THEN profile.skin_tone ELSE "unknown", ".">> >>
    \o (IF TruthyNum(profile.height)
        THEN << <<"Height: ", profile.height, "cm.">> >> ELSE <<>>)
    \o (IF TruthyDict(profile.sizes)
        THEN << <<"Sizes: ">>
                \o Join([k \in 1..Len(profile.sizes) |->
                           <<profile.sizes[k][1], ": ", profile.sizes[k][2]>>], ", ")
                \o <<".">> >>
        ELSE <<>>)
    \o (IF TruthyList(profile.style_preferences)
        THEN << <<"Style preferences: ">>
                \o Join([k \in 1..Len(profile.style_preferences) |->
                           <<profile.style_preferences[k]>>], ", ")
                \o <<".">> >>
        ELSE <<>>)
    \o (IF TruthyList(profile.favorite_colors)
        THEN << <<"Favorite colors: ">>
                \o Join([k \in 1..Len(profile.favorite_colors) |->
                           <<profile.favorite_colors[k]>>], ", ")
                \o <<".">> >>
        ELSE <<>>)
    \o (IF TruthyList(profile.disliked_items)
        THEN << <<"Disliked items: ">>
                \o Join([k \in 1..Len(profile.disliked_items) |->
                           <<profile.disliked_items[k]>>], ", ")
                \o <<".">> >>
        ELSE <<>>)

\* C20: the text a stored embedding was generated from is the fragments of the
\* profile in the order body shape, skin tone, height, sizes, style
\* preferences, favorite colors, disliked items, with one space between
\* consecutive fragments and nothing after the last.
RenderedTextIsFragmentsJoined ==
    \A i \in 1..Len(rows) :
        rows[i].style_embedding # NoneVec
           => Concat(embSrc[i]) = Concat(Join(Fragments(rows[i]), " "))

(***************************************************************************)
(* Rendering of merged profiles                                            *)
(***************************************************************************)
\* C21: two runs of the same merge over the same source profiles render the
\* same text: after a merge and its repetition, the texts that the embeddings
\* of the two merged profiles were generated from are equal.
MergeRendersDeterministically ==
    (Merged /\ outcome.raised = "none" /\ commits = 2)
        => Concat(embSrc[Len(rows)]) = Concat(embSrc[Len(rows) - 1])

(***************************************************************************)
(* generate_style_embedding                                                *)
(***************************************************************************)
\* C22: a failure of the embedding service reaches the caller as one
\* HTTPException that carries the service's message, after a single request;
\* no vector stands in for the failed embedding, and nothing is stored.
EmbeddingFailureIsSurfaced ==
    (Merged /\ "embed" \in Range(calls) /\ ~outcome.reply.ok) =>
        /\ outcome.raised = "HTTPException"
        /\ outcome.status = 500
        /\ outcome.detail[Len(outcome.detail)] = outcome.reply.err
        /\ calls = <<"embed">>
        /\ outcome.profile.style_embedding = NoneVec
        /\ session.new = <<>>
        /\ rows = pre

\* C22 witness: a merge of two loaded profiles whose embedding request failed
MergeEmbeddingFailed ==
    /\ Merged
    /\ Len(outcome.loaded) = 2
    /\ calls = <<"embed">>
    /\ ~outcome.reply.ok
    /\ outcome.raised = "HTTPException"

\* C23: when the embedding service raises, the HTTPException has status 500
\* and a detail that contains 'Failed to generate style embedding'.
EmbeddingFailureDetailSaysFailed ==
    (outcome.op \in {"create_profile_from_analysis", "update_profile_from_analysis",
                     "merge_profiles"}
       /\ "embed" \in Range(calls) /\ ~outcome.reply.ok) =>
        /\ outcome.raised = "HTTPException"
        /\ outcome.status = 500
        /\ \E k \in 1..Len(outcome.detail) :
              outcome.detail[k] \in {"Failed to generate style embedding",
                                     "Failed to generate style embedding: "}

(***************************************************************************)
(* create_profile_from_analysis                                            *)
(***************************************************************************)
\* the value under group and key of the analysis of the last operation, or
\* `absent` when the group or the key is missing
Analysed(group, key, absent) ==
    IF group \notin DOMAIN outcome.analysis THEN absent
    ELSE IF key \notin DOMAIN outcome.analysis[group] THEN absent
    ELSE outcome.analysis[group][key]

\* C24: the profile create_profile_from_analysis builds has the user_id and
\* name given, body_shape and skin_tone of person_attributes, the sizes of
\* size_estimation, style_descriptors as style_preferences and color_palette
\* as favorite_colors; a missing group or key gives a null or empty attribute,
\* and the operation fails only when the embedding or the commit fails.
CreateMapsAnalysis ==
    Created =>
        LET p == outcome.profile
        IN  /\ p.user_id = outcome.user_id
            /\ p.name = "Default Profile"
            /\ p.body_shape = Analysed("person_attributes", "body_shape", None)
            /\ p.skin_tone = Analysed("person_attributes", "skin_tone", None)
            /\ p.sizes = (IF "size_estimation" \in DOMAIN outcome.analysis
                          THEN outcome.analysis["size_estimation"] ELSE <<>>)
            /\ p.style_preferences = Analysed("style_assessment", "style_descriptors", <<>>)
            /\ p.favorite_colors = Analysed("style_assessment", "color_palette", <<>>)
            /\ p.height = None
            /\ p.disliked_items = <<>>
            /\ outcome.raised = "HTTPException" => ~outcome.reply.ok
            /\ outcome.raised = "Exception" => outcome.detail = <<"Database error">>
            /\ outcome.raised = "none" => rows = Append(pre, p)

\* C24 witness: a profile stored from an analysis that has the style
\* assessment with its color palette only
CreatedFromPartialAnalysis ==
    /\ Created
    /\ outcome.raised = "none"
    /\ DOMAIN outcome.analysis = {"style_assessment"}
    /\ outcome.analysis["style_assessment"] = [color_palette |-> <<"blue">>]
    /\ rows[Len(rows)].favorite_colors = <<"blue">>
    /\ rows[Len(rows)].style_preferences = <<>>
    /\ rows[Len(rows)].body_shape = None

(***************************************************************************)
(* Updates of one profile by two requests                                  *)
(***************************************************************************)
Committed(p) == tx[p].pc = "done" /\ tx[p].raised = "none"
BothCommittedOnOne == Committed(1) /\ Committed(2) /\ tx[1].id = tx[2].id

\* both requests queried the profile before either had committed
Interleaved == tx[1].at = 0 /\ tx[2].at = 0

\* the committed row holds what the analysis of request p provided
Contributed(p) ==
    LET row == rows[tx[p].id]
        person_attributes == Get(tx[p].analysis, "person_attributes", <<>>)
        style_assessment == Get(tx[p].analysis, "style_assessment", <<>>)
        size_estimation == Get(tx[p].analysis, "size_estimation", <<>>)
    IN  /\ "body_shape" \in DOMAIN person_attributes
              => row.body_shape = person_attributes["body_shape"]
        /\ Range(Get(style_assessment, "style_descriptors", <<>>))
              \subseteq Range(row.style_preferences)
        /\ Range(Get(style_assessment, "color_palette", <<>>))
              \subseteq Range(row.favorite_colors)
        /\ \A k \in 1..Len(size_estimation) :
              /\ size_estimation[k][1] \in DictKeys(row.sizes)
              /\ DictGet(row.sizes, size_estimation[k][1]) = size_estimation[k][2]

\* the stored embedding was generated from the text of the committed row
EmbeddingOfFinalRow(i) == Concat(embSrc[i]) = Concat(_profile_to_text(rows[i]))

\* C25: when two update_profile_from_analysis requests on one profile have
\* both committed, the row lacks a contribution of one of them, or carries an
\* embedding of other attributes than its own, only if both had queried the
\* profile before either committed; run one after the other they lose nothing.
UpdatesLoseOnlyWhenInterleaved ==
    (BothCommittedOnOne
       /\ (~Contributed(1) \/ ~Contributed(2) \/ ~EmbeddingOfFinalRow(tx[1].id)))
        => Interleaved

\* C25 witness: two interleaved requests have committed and the style
\* descriptors of one of them are not in the row
LostUpdate ==
    /\ BothCommittedOnOne
    /\ Interleaved
    /\ \E p \in Procs :
          ~(Range(Get(Get(tx[p].analysis, "style_assessment", <<>>),
                      "style_descriptors", <<>>))
               \subseteq Range(rows[tx[p].id].style_preferences))

\* two interleaved requests have committed and the embedding stored is not
\* that of the row
StaleEmbeddingAfterInterleaving ==
    /\ BothCommittedOnOne
    /\ Interleaved
    /\ ~EmbeddingOfFinalRow(tx[1].id)

\* two requests run one after the other have committed, with different analyses
SequentialUpdatesKeptBoth ==
    /\ BothCommittedOnOne
    /\ ~Interleaved
    /\ tx[1].analysis # tx[2].analysis
    /\ Contributed(1) /\ Contributed(2)

(***************************************************************************)
(* Ownership in merge_profiles                                             *)
(***************************************************************************)
\* the ids of a merge request that name a row of another user, and those that
\* name no row
ForeignIds == {i \in Range(outcome.ids) : i \in 1..Len(pre) /\ pre[i].user_id # outcome.user_id}
UnknownIds == {i \in Range(outcome.ids) : i \notin 1..Len(pre)}

\* C26: merge_profiles loads rows of the requesting user only; a request that
\* names a row of another user gets the 404 of a request that names no row,
\* with nothing built from that row, and a merged profile is the requester's.
MergeStaysWithinOwner ==
    Merged =>
        /\ \A i \in Range(outcome.loaded) : pre[i].user_id = outcome.user_id
        /\ (ForeignIds # {} \/ UnknownIds # {}) =>
              /\ outcome.raised = "HTTPException"
              /\ outcome.status = 404
              /\ outcome.detail = <<"One or more profiles not found">>
              /\ outcome.profile = NoProfile
              /\ calls = <<>>
              /\ rows = pre
        /\ outcome.profile # NoProfile => outcome.profile.user_id = outcome.user_id
        /\ rows # pre => rows[Len(rows)].user_id = outcome.user_id

\* C26 witness: a request of user 1 for a row of their own and a row of user 2
MergeOfForeignProfileRefused ==
    /\ Merged
    /\ outcome.user_id = 1
    /\ Len(outcome.ids) = 2
    /\ ForeignIds # {}
    /\ UnknownIds = {}
    /\ Len(outcome.loaded) = 1
    /\ outcome.status = 404

(***************************************************************************)
(* What update_profile_from_analysis merges                                *)
(***************************************************************************)
UpdateCommitted == UpdatedStored /\ outcome.raised = "none"
Incoming(group, key) == Get(Get(outcome.analysis, group, <<>>), key, <<>>)
IncomingSizes == Get(outcome.analysis, "size_estimation", <<>>)
ListValue(v) == IF TruthyList(v) THEN v ELSE <<>>
DictValue(v) == IF TruthyDict(v) THEN v ELSE <<>>
NoDuplicates(xs) == \A a, b \in 1..Len(xs) : xs[a] = xs[b] => a = b

\* the list (a null list counting as empty) is duplicate-free and holds the
\* elements of the stored and of the incoming list
IsListUnion(after, before, incoming) ==
    /\ NoDuplicates(ListValue(after))
    /\ Range(ListValue(after)) = Range(ListValue(before)) \cup Range(incoming)

\* the mapping (a null mapping counting as empty) has the keys of both, the
\* incoming value where there is one and the stored value elsewhere
IsShallowUnion(after, before, incoming) ==
    /\ NoDuplicates([k \in 1..Len(DictValue(after)) |-> after[k][1]])
    /\ DictKeys(DictValue(after)) = DictKeys(DictValue(before)) \cup DictKeys(incoming)
    /\ \A k \in DictKeys(DictValue(after)) :
          DictGet(after, k) = IF k \in DictKeys(incoming) THEN DictGet(incoming, k)
                              ELSE DictGet(before, k)

\* C27 as stated: after every update style_preferences and favorite_colors
\* are duplicate-free unions of the stored and the incoming list, and sizes is
\* the shallow union of the stored mapping and size_estimation.
UpdateAlwaysMerges ==
    UpdateCommitted =>
        LET before == pre[UpdateTarget]
            after == rows[UpdateTarget]
        IN  /\ IsListUnion(after.style_preferences, before.style_preferences,
                           Incoming("style_assessment", "style_descriptors"))
            /\ IsListUnion(after.favorite_colors, before.favorite_colors,
                           Incoming("style_assessment", "color_palette"))
            /\ IsShallowUnion(after.sizes, before.sizes, IncomingSizes)

\* C27 amended: for each of the two lists that the analysis provides
\* non-empty, and for sizes when size_estimation is non-empty, the update
\* leaves the duplicate-free union, respectively the shallow union.
UpdateMergesWhatIsProvided ==
    UpdateCommitted =>
        LET before == pre[UpdateTarget]
            after == rows[UpdateTarget]
        IN  /\ TruthyList(Incoming("style_assessment", "style_descriptors"))
                  => IsListUnion(after.style_preferences, before.style_preferences,
                                 Incoming("style_assessment", "style_descriptors"))
            /\ TruthyList(Incoming("style_assessment", "color_palette"))
                  => IsListUnion(after.favorite_colors, before.favorite_colors,
                                 Incoming("style_assessment", "color_palette"))
            /\ TruthyDict(IncomingSizes)
                  => IsShallowUnion(after.sizes, before.sizes, IncomingSizes)

\* C27 witness: an update that found a stored style preference among the
\* incoming ones and replaced the stored size of a key, keeping another key
UpdateMergedOverlap ==
    /\ UpdateCommitted
    /\ pre[UpdateTarget].style_preferences = <<"elegant", "casual">>
    /\ Incoming("style_assessment", "style_descriptors") = <<"casual", "modern">>
    /\ Len(rows[UpdateTarget].style_preferences) = 3
    /\ IncomingSizes = <<<<"top", "S">>, <<"bottom", "30">>>>
    /\ DictGet(rows[UpdateTarget].sizes, "top") = "S"

\* an update that replaced the stored size of a key and kept another key
UpdateMergedSizes ==
    /\ UpdateCommitted
    /\ pre[UpdateTarget].sizes = <<<<"bottom", "32">>, <<"shoes", "9">>>>
    /\ IncomingSizes = <<<<"top", "S">>, <<"bottom", "30">>>>
    /\ DictGet(rows[UpdateTarget].sizes, "bottom") = "30"
    /\ DictGet(rows[UpdateTarget].sizes, "shoes") = "9"

(***************************************************************************)
(* Calls of a successful operation                                         *)
(***************************************************************************)
Succeeded ==
    /\ outcome.op \in {"create_profile_from_analysis", "update_profile_from_analysis",
                       "merge_profiles"}
    /\ outcome.raised = "none"
At(call) == CHOOSE k \in 1..Len(calls) : calls[k] = call
Stored == IF Updated THEN rows[UpdateTarget] ELSE rows[Len(rows)]

\* C28: a successful create_profile_from_analysis, update_profile_from_analysis
\* or merge_profiles has made one embedding request and, after it, one commit
\* (create and merge one add before the commit as well); the vector stored is
\* the answer to that request, whatever vector was stored before.
OneEmbeddingThenOneCommit ==
    Succeeded =>
        /\ Count(calls, "embed") = 1
        /\ Count(calls, "commit") = 1
        /\ At("embed") < At("commit")
        /\ Count(calls, "add") = IF Updated THEN 0 ELSE 1
        /\ ~Updated => At("add") < At("commit")
        /\ commits = 1
        /\ outcome.reply.ok
        /\ Stored.style_embedding = outcome.reply.vec

\* C28 witness: a merge of one profile stored a profile of the same attributes
\* as its source with another vector than the source's
MergeEmbeddedAfresh ==
    /\ Merged
    /\ Succeeded
    /\ Len(outcome.loaded) = 1
    /\ Concat(embSrc[Len(rows)]) = Concat(embSrc[outcome.loaded[1]])
    /\ rows[Len(rows)].style_embedding # rows[outcome.loaded[1]].style_embedding

(***************************************************************************)
(* update_profile_from_analysis applied twice                              *)
(***************************************************************************)
UpdatedTwice == UpdateCommitted /\ commits = 2

\* C29: a second update_profile_from_analysis with the analysis of the first
\* leaves body_shape, skin_tone, the sizes mapping and the elements of
\* style_preferences and favorite_colors as the first left them.
UpdateIsIdempotent ==
    UpdatedTwice =>
        LET once == pre[UpdateTarget]
            twice == rows[UpdateTarget]
        IN  /\ twice.body_shape = once.body_shape
            /\ twice.skin_tone = once.skin_tone
            /\ Range(twice.sizes) = Range(once.sizes)
            /\ Len(twice.sizes) = Len(once.sizes)
            /\ Range(twice.style_preferences) = Range(once.style_preferences)
            /\ Range(twice.favorite_colors) = Range(once.favorite_colors)

\* C29 witness: the second update of a profile with an analysis that adds a
\* style preference and a size stored the preferences in another order
UpdatedTwiceReordered ==
    /\ UpdatedTwice
    /\ Len(rows[UpdateTarget].style_preferences) = 3
    /\ Len(rows[UpdateTarget].sizes) = 2
    /\ rows[UpdateTarget].style_preferences # pre[UpdateTarget].style_preferences

(***************************************************************************)
(* The two renderers                                                       *)
(***************************************************************************)
Rendered == outcome.op = "render_profile"

\* C30: _profile_to_text of an entity and _profile_dict_to_text of a mapping
\* with the same attribute values, a missing key counting as null, give the
\* same string.
RenderersAgree ==
    Rendered => Concat(outcome.entity_text) = Concat(outcome.dict_text)

\* C30 witness: a mapping without the body shape and the sizes and with
\* several favorite colors, rendered both ways
RenderedPartialMapping ==
    /\ Rendered
    /\ DOMAIN outcome.bag = EmbeddedFields \ {"body_shape", "sizes"}
    /\ outcome.bag["favorite_colors"] = <<"black", "blue">>
    /\ outcome.dict_text # <<>>

====
